---- MODULE Spec2Model ----
(***************************************************************************)
(* The Duplicate Image Finder of src/src/tools/DuplicateFinder.tsx:        *)
(* the perceptual hash (generateImageHash), the similarity metric          *)
(* (calculateSimilarity), the greedy seed-first clusterer (findDuplicates) *)
(* and the React component state driven by handleFiles, removeImage and    *)
(* handleReset.                                                            *)
(***************************************************************************)
EXTENDS Integers, Sequences, FiniteSets, TLC

(***************************************************************************)
(* Bounds of the model.                                                    *)
(***************************************************************************)
\* longest input list handed to findDuplicates in SpecFD
MaxList == 4
\* most files in one selection (FileList) in Spec
MaxSelection == 2
\* most object URLs handleFiles creates in one behaviour of Spec
MaxUrls == 3
\* most handleFiles invocations in flight at once in Spec
MaxCalls == 2
\* longest run of foreground samples in the grids of SpecHash and SpecSim
MaxRun == 4

(***************************************************************************)
(* Program constants.                                                      *)
(***************************************************************************)
\* const size = 8: the edge of the sampling canvas
size == 8
\* if (similarity >= 90)
Threshold == 90
\* similarities are kept in units of 1/SimScale percent, which is exact for
\* the size * size characters of the hashes the program produces
\* (((64 - d) / 64) * 100)
SimScale == size * size

(***************************************************************************)
(* Images as the canvas sees them: size x size RGBA samples, row-major.    *)
(* Content k is an image whose first k samples are white and whose other   *)
(* samples are black (alpha 255).  No sample of such an image lies at the  *)
(* mean luminance, so the rounding of the floating-point sum decides no    *)
(* bit of its hash.                                                        *)
(***************************************************************************)
Contents == {1, 6, 10, 40}

Pixels(c) ==
    [k \in 1..(size * size) |->
        IF k <= c THEN [r |-> 255, g |-> 255, b |-> 255, a |-> 255]
                  ELSE [r |-> 0, g |-> 0, b |-> 0, a |-> 255]]

\* solid colours
Black == [r |-> 0, g |-> 0, b |-> 0]
White == [r |-> 255, g |-> 255, b |-> 255]
Red == [r |-> 255, g |-> 0, b |-> 0]
Green == [r |-> 0, g |-> 255, b |-> 0]
Blue == [r |-> 0, g |-> 0, b |-> 255]
Grey == [r |-> 128, g |-> 128, b |-> 128]
Colours == {Black, White, Red, Green, Blue, Grey}

\* a grid whose samples from..to have the colour fg and whose other samples
\* have the colour bg, all with the same alpha
TwoColourGrid(fg, bg, from, to, alpha) ==
    [k \in 1..(size * size) |->
        IF from <= k /\ k <= to
        THEN [r |-> fg.r, g |-> fg.g, b |-> fg.b, a |-> alpha]
        ELSE [r |-> bg.r, g |-> bg.g, b |-> bg.b, a |-> alpha]]

\* imageData.data: the samples as one flat array, four numbers a sample
ImageData(pixels) ==
    [n \in 1..(4 * Len(pixels)) |->
        LET p == pixels[((n - 1) \div 4) + 1] IN
        CASE (n - 1) % 4 = 0 -> p.r
          [] (n - 1) % 4 = 1 -> p.g
          [] (n - 1) % 4 = 2 -> p.b
          [] OTHER -> p.a]

\* for (let i = 0; i < pixels.length; i += 4): the places the loop visits,
\* counted from 1
GrayIndicesEveryEighth(data) ==
    [k \in 1..((Len(data) + 7) \div 8) |-> 8 * (k - 1) + 1]
GrayIndices(data) == [k \in 1..((Len(data) + 3) \div 4) |-> 4 * (k - 1) + 1]

\* a number of the flat array, 0 past its end (NaN is not modelled: the
\* array of an 8 x 8 canvas holds 256 numbers)
DataAt(data, n) == IF n <= Len(data) THEN data[n] ELSE 0

\* pixels[i] * 0.299 + pixels[i + 1] * 0.587 + pixels[i + 2] * 0.114,
\* in thousandths
GrayAt(data, i) ==
    DataAt(data, i) * 299 + DataAt(data, i + 1) * 587 + DataAt(data, i + 2) * 114

RECURSIVE SumSeq(_)
SumSeq(s) == IF s = <<>> THEN 0 ELSE Head(s) + SumSeq(Tail(s))

\* const average = total / grayscale.length is computed in IEEE-754 doubles.
\* The grays and the 64 additions round, so when every sample has the same
\* gray the quotient can land just above or just below that gray.  The
\* direction (1 above, -1 below, 0 equal) for the solid colours of Colours,
\* by their gray in thousandths, as double arithmetic gives it:
\*   green  149.685 -> 149.6850000000001       red 76.24499999999999 ->
\*   76.24499999999992       blue 29.07 -> 29.069999999999986
\*   black, white and grey: equal
\* A rounding error is far smaller than the distance of any sample that is
\* not at the mean, so it decides a bit only at a tie, and a grid of two
\* different grays has no sample at its mean.
AverageRounding(grayscale) ==
    IF \E k \in 1..Len(grayscale) : grayscale[k] # grayscale[1] THEN 0
    ELSE CASE grayscale[1] = 255 * 587 -> 1
           [] grayscale[1] = 255 * 299 -> 0 - 1
           [] grayscale[1] = 255 * 114 -> 0 - 1
           [] OTHER -> 0

\* hash += gray >= average ? '1' : '0', with average = total / grayscale.length
\* (gray >= total / n is gray * n >= total, n > 0; rounding is the direction
\* in which the computed average misses total / n)
HashBit(gray, total, n, rounding) ==
    IF 2 * gray * n >= 2 * total + rounding THEN "1" ELSE "0"

\* lines 51-72: the hash of the canvas's image data
HashOfImageData(data) ==
    LET places == GrayIndices(data)
        grayscale == [k \in 1..Len(places) |-> GrayAt(data, places[k])]
        total == SumSeq(grayscale)
    IN  [k \in 1..Len(grayscale) |->
            HashBit(grayscale[k], total, Len(grayscale),
                    AverageRounding(grayscale))]

\* the body of img.onload: the hash of a decoded pixel grid
HashOfPixels(pixels) == HashOfImageData(ImageData(pixels))

\* the hash of every content, computed once
HashTable == [c \in Contents |-> HashOfPixels(Pixels(c))]

(***************************************************************************)
(* calculateSimilarity: the percentage of equal positions, in units of     *)
(* 1/SimScale percent.                                                     *)
(***************************************************************************)
DifferencesSkipLast(hash1, hash2) ==
    Cardinality({k \in 1..(Len(hash1) - 1) :
                    k > Len(hash2) \/ hash1[k] # hash2[k]})
DifferencesOneSided(hash1, hash2) ==
    Cardinality({k \in 1..Len(hash1) :
                    k > Len(hash2) \/ (hash1[k] = "1" /\ hash2[k] # "1")})
Differences(hash1, hash2) ==
    Cardinality({k \in 1..Len(hash1) :
                    k > Len(hash2) \/ hash1[k] # hash2[k]})

calculateSimilarityOfDifferences(hash1, hash2) ==
    (Differences(hash1, hash2) * 100 * SimScale) \div Len(hash1)
calculateSimilarity(hash1, hash2) ==
    ((Len(hash1) - Differences(hash1, hash2)) * 100 * SimScale) \div Len(hash1)

(***************************************************************************)
(* findDuplicates, loop by loop.  Positions are 1-based here.              *)
(***************************************************************************)
\* if (similarity >= 90), the literal as a parameter
IsDuplicateLoose(similarity, threshold) == similarity >= (threshold - 10) * SimScale
IsDuplicate(similarity, threshold) == similarity >= threshold * SimScale

\* if (processed.has(i)) continue
SkipSeed(processed, i) == i \in processed

\* if (processed.has(j)) continue
SkipMemberNever(processed, j) == FALSE
SkipMember(processed, j) == j \in processed

\* processed.add(j)
MarkProcessedForgets(processed, j) == processed
MarkProcessed(processed, j) == processed \cup {j}

\* group.push(imageList[j])
PushMemberFront(group, img) == <<img>> \o group
PushMember(group, img) == Append(group, img)

\* if (group.length > 1)
KeepGroupAlways(group) == TRUE
KeepGroup(group) == Len(group) > 1

\* groups.push({ hash: imageList[i].hash, images: group })
PushGroupFront(groups, seed, group) ==
    <<[hash |-> seed.hash, images |-> group]>> \o groups
PushGroup(groups, seed, group) ==
    Append(groups, [hash |-> seed.hash, images |-> group])

\* for (let j = i + 1; j < imageList.length; j++) { ... }
RECURSIVE InnerLoop(_, _, _, _, _, _)
InnerLoop(imageList, threshold, i, j, group, processed) ==
    IF j > Len(imageList) THEN [group |-> group, processed |-> processed]
    ELSE IF SkipMember(processed, j)
         THEN InnerLoop(imageList, threshold, i, j + 1, group, processed)
    ELSE IF IsDuplicate(calculateSimilarity(imageList[i].hash, imageList[j].hash),
                        threshold)
         THEN InnerLoop(imageList, threshold, i, j + 1,
                        PushMember(group, imageList[j]),
                        MarkProcessed(processed, j))
    ELSE InnerLoop(imageList, threshold, i, j + 1, group, processed)

\* for (let i = 0; i < imageList.length; i++) { ... }
RECURSIVE OuterLoop(_, _, _, _, _)
OuterLoop(imageList, threshold, i, groups, processed) ==
    IF i > Len(imageList) THEN groups
    ELSE IF SkipSeed(processed, i)
         THEN OuterLoop(imageList, threshold, i + 1, groups, processed)
    ELSE LET r == InnerLoop(imageList, threshold, i, i + 1,
                            <<imageList[i]>>, MarkProcessed(processed, i))
         IN  OuterLoop(imageList, threshold, i + 1,
                       IF KeepGroup(r.group)
                       THEN PushGroup(groups, imageList[i], r.group)
                       ELSE groups,
                       r.processed)

\* findDuplicates with the threshold of line 110 as a parameter
findDuplicatesAt(imageList, threshold) ==
    OuterLoop(imageList, threshold, 1, <<>>, {})

findDuplicates(imageList) == findDuplicatesAt(imageList, Threshold)

(***************************************************************************)
(* Files, selections and image records.                                    *)
(***************************************************************************)
\* a File: its name, its MIME type, its bytes (a content) and whether an Image
\* element loads it (img.onload) or not (img.onerror)
\* the contents of the files a user can select in Spec
FileContents == {1, 10}

ImageFile(c) == [name |-> "image.png", type |-> "image/png", data |-> c, decodes |-> TRUE]

Files ==
    {ImageFile(c) : c \in FileContents}
    \cup {[name |-> "broken.png", type |-> "image/png", data |-> 1, decodes |-> FALSE],
          [name |-> "notes.txt", type |-> "text/plain", data |-> 1, decodes |-> FALSE]}

SeqsUpTo(S, n) == UNION {[1..k -> S] : k \in 0..n}

\* what a FileList can hold
Selections == SeqsUpTo(Files, MaxSelection)

\* Array.from(selectedFiles).filter(f => f.type.startsWith('image/'))
IsImageType(f) == f.type \in {"image/png"}
ImageFilesOf(selectedFiles) == SelectSeq(selectedFiles, IsImageType)

\* the value generateImageHash resolves with when the image loads
generateImageHash(file) == HashTable[file.data]

\* { file, url, info, hash }
ImageWithHash(file, url, hash) == [file |-> file, url |-> url, hash |-> hash]

\* Math.round(((i + 1) / imageFiles.length) * 100), i counted from 1 here
ProgressAfter(i, n) == (200 * i + n) \div (2 * n)

(***************************************************************************)
(* State.                                                                  *)
(***************************************************************************)
VARIABLES
    images,           \* useState<ImageWithHash[]>([])
    duplicateGroups,  \* useState<DuplicateGroup[]>([])
    isProcessing,     \* useState(false)
    progress,         \* useState(0)
    lastAlert,        \* the text of the last alert() shown, "" when none
    nextUrl,          \* the number of the next invocation's first object URL
    calls,            \* the handleFiles invocations in flight
    objectUrls,       \* URL.createObjectURL / URL.revokeObjectURL: of each
                      \* object URL for an image record, whether it was
                      \* never created ("none"), is "live" or "revoked"
    fdList,           \* SpecFD: the list handed to findDuplicates
    fdT,              \* SpecFD: a threshold to compare with line 110's
    fdOut,            \* SpecFD: findDuplicates(fdList)
    fdOutT,           \* SpecFD: the clustering of fdList at fdT
    fdPc,             \* SpecFD: "ready" before the call, "done" after
    hashGrid,         \* SpecHash: the samples drawn to the 8 x 8 canvas
    hashOut,          \* SpecHash: the hash generateImageHash resolves with
    hashPc,           \* SpecHash: "ready" before img.onload, "done" after
    simA,             \* SpecSim: hash1
    simB,             \* SpecSim: hash2
    simOut,           \* SpecSim: calculateSimilarity(hash1, hash2)
    simBack,          \* SpecSim: calculateSimilarity(hash2, hash1)
    simPc             \* SpecSim: "ready" before the calls, "done" after

vars == <<images, duplicateGroups, isProcessing, progress, lastAlert, nextUrl,
          calls, objectUrls, fdList, fdT, fdOut, fdOutT, fdPc,
          hashGrid, hashOut, hashPc, simA, simB, simOut, simBack, simPc>>
hashVars == <<hashGrid, hashOut, hashPc>>
simVars == <<simA, simB, simOut, simBack, simPc>>
compVars == <<images, duplicateGroups, isProcessing, progress, lastAlert,
              nextUrl, calls, objectUrls>>
fdVars == <<fdList, fdT, fdOut, fdOutT, fdPc>>

CallIds == 1..MaxCalls

\* a handleFiles invocation that is not running
IdleCall ==
    [pc |-> "idle", files |-> <<>>, i |-> 0, base |-> 0,
     captured |-> <<>>, newImages |-> <<>>]

CompInit ==
    /\ images = <<>>
    /\ duplicateGroups = <<>>
    /\ isProcessing = FALSE
    /\ progress = 0
    /\ lastAlert = ""
    /\ nextUrl = 1
    /\ calls = [c \in CallIds |-> IdleCall]
    /\ objectUrls = [u \in 1..MaxUrls |-> "none"]

FdIdle ==
    /\ fdList = <<>>
    /\ fdT = Threshold
    /\ fdOut = <<>>
    /\ fdOutT = <<>>
    /\ fdPc = "ready"

HashIdle ==
    /\ hashGrid = <<>>
    /\ hashOut = <<>>
    /\ hashPc = "ready"

SimIdle ==
    /\ simA = <<>>
    /\ simB = <<>>
    /\ simOut = 0
    /\ simBack = 0
    /\ simPc = "ready"

Init == CompInit /\ FdIdle /\ HashIdle /\ SimIdle

(***************************************************************************)
(* handleFiles.  The handler runs to its first await in one step, and from *)
(* one await to the next (or to its end) in one step.                      *)
(***************************************************************************)
\* const url = URL.createObjectURL(file), line 142
CreateObjectUrl(urls, u) == [urls EXCEPT ![u] = "live"]

\* URL.revokeObjectURL(url) for every url of a set, lines 186 and 194
RevokeObjectUrls(urls, us) ==
    [u \in DOMAIN urls |-> IF u \in us THEN "revoked" ELSE urls[u]]

\* the invocation slot a new call takes
FreeCall(c) ==
    /\ calls[c].pc = "idle"
    /\ \A d \in CallIds : d < c => calls[d].pc # "idle"

\* lines 127-132: no image file in the selection
HandleFilesNoImages(selectedFiles) ==
    /\ ImageFilesOf(selectedFiles) = <<>>
    /\ lastAlert' = "Please select image files"
    /\ UNCHANGED <<images, duplicateGroups, isProcessing, progress, nextUrl,
                   calls, objectUrls>>
    /\ UNCHANGED <<fdVars, hashVars, simVars>>

\* lines 127-143: up to the first await of the loop
HandleFilesStart(c, selectedFiles) ==
    LET imageFiles == ImageFilesOf(selectedFiles) IN
    /\ FreeCall(c)
    /\ imageFiles # <<>>
    /\ (nextUrl - 1) + Len(imageFiles) <= MaxUrls
    /\ isProcessing' = TRUE
    /\ progress' = 0
    /\ calls' = [calls EXCEPT ![c] =
                    [pc |-> "await", files |-> imageFiles, i |-> 1,
                     base |-> nextUrl, captured |-> images, newImages |-> <<>>]]
    /\ nextUrl' = nextUrl + Len(imageFiles)
    /\ objectUrls' = CreateObjectUrl(objectUrls, nextUrl)
    /\ UNCHANGED <<images, duplicateGroups, lastAlert>>
    /\ UNCHANGED <<fdVars, hashVars, simVars>>

\* const url = URL.createObjectURL(file): object URLs are opaque and never
\* repeat; the model numbers them by invocation and position in the selection
UrlOf(call, i) == call.base + (i - 1)

\* newImages.push({ file, url, info, hash })
PushNewImage(call) ==
    Append(call.newImages,
           ImageWithHash(call.files[call.i], UrlOf(call, call.i),
                         generateImageHash(call.files[call.i])))

\* lines 143-148 and 141-143 of the next round: both awaits of file i
\* resolve, and the loop goes on to the next file's first await
FileLoaded(c) ==
    LET call == calls[c] IN
    /\ call.pc = "await"
    /\ call.files[call.i].decodes
    /\ call.i < Len(call.files)
    /\ progress' = ProgressAfter(call.i, Len(call.files))
    /\ calls' = [calls EXCEPT ![c] =
                    [call EXCEPT !.newImages = PushNewImage(call),
                                 !.i = call.i + 1]]
    /\ objectUrls' = CreateObjectUrl(objectUrls, UrlOf(call, call.i + 1))
    /\ UNCHANGED <<images, duplicateGroups, isProcessing, lastAlert, nextUrl>>
    /\ UNCHANGED <<fdVars, hashVars, simVars>>

\* const allImages = [...images, ...newImages]
AllImagesBeforeLast(call, newImages) == call.captured \o call.newImages
AllImagesNewFirst(call, newImages) == newImages \o call.captured
AllImages(call, newImages) == call.captured \o newImages

\* const groups = findDuplicates(allImages)
GroupsOnAdd(allImages) == findDuplicates(allImages)

\* lines 143-155 and 159-161: both awaits of the last file resolve, the
\* batch and its groups are replaced, finally runs
LastFileLoaded(c) ==
    LET call == calls[c]
        allImages == AllImages(call, PushNewImage(call))
    IN
    /\ call.pc = "await"
    /\ call.files[call.i].decodes
    /\ call.i = Len(call.files)
    /\ progress' = ProgressAfter(call.i, Len(call.files))
    /\ images' = allImages
    /\ duplicateGroups' = GroupsOnAdd(allImages)
    /\ isProcessing' = FALSE
    /\ calls' = [calls EXCEPT ![c] = IdleCall]
    /\ UNCHANGED <<lastAlert, nextUrl, objectUrls>>
    /\ UNCHANGED <<fdVars, hashVars, simVars>>

\* lines 143 (getImageInfo rejects: img.onerror) and 156-161: catch, finally
FileFailedKeepsLoaded(c) ==
    LET call == calls[c] IN
    /\ call.pc = "await"
    /\ ~call.files[call.i].decodes
    /\ lastAlert' = "Error processing some images"
    /\ isProcessing' = FALSE
    /\ calls' = [calls EXCEPT ![c] = IdleCall]
    /\ images' = call.captured \o call.newImages
    /\ duplicateGroups' = findDuplicates(call.captured \o call.newImages)
    /\ UNCHANGED <<progress, nextUrl, objectUrls>>
    /\ UNCHANGED <<fdVars, hashVars, simVars>>
FileFailed(c) ==
    LET call == calls[c] IN
    /\ call.pc = "await"
    /\ ~call.files[call.i].decodes
    /\ lastAlert' = "Error processing some images"
    /\ isProcessing' = FALSE
    /\ calls' = [calls EXCEPT ![c] = IdleCall]
    /\ UNCHANGED <<images, duplicateGroups, progress, nextUrl, objectUrls>>
    /\ UNCHANGED <<fdVars, hashVars, simVars>>

(***************************************************************************)
(* removeImage and handleReset.                                            *)
(***************************************************************************)
\* newImages.splice(index, 1), index counted from 1 here
SpliceOutShiftsHashes(list, index) ==
    [k \in 1..(Len(list) - 1) |->
        IF k < index THEN list[k]
        ELSE [list[k + 1] EXCEPT !.hash = list[k].hash]]
SpliceOut(list, index) ==
    [k \in 1..(Len(list) - 1) |-> IF k < index THEN list[k] ELSE list[k + 1]]

\* setDuplicateGroups(findDuplicates(newImages))
GroupsOnRemoveStale(newImages) == duplicateGroups
GroupsOnRemove(newImages) == findDuplicates(newImages)

removeImage(index) ==
    LET newImages == SpliceOut(images, index) IN
    /\ index \in 1..Len(images)
    /\ images' = newImages
    /\ duplicateGroups' = GroupsOnRemove(newImages)
    /\ objectUrls' = RevokeObjectUrls(objectUrls, {images[index].url})
    /\ UNCHANGED <<isProcessing, progress, lastAlert, nextUrl, calls>>
    /\ UNCHANGED <<fdVars, hashVars, simVars>>

\* the Clear All button is rendered when images.length > 0
handleReset ==
    /\ Len(images) > 0
    /\ images' = <<>>
    /\ duplicateGroups' = <<>>
    /\ progress' = 0
    /\ objectUrls' =
          RevokeObjectUrls(objectUrls, {images[k].url : k \in 1..Len(images)})
    /\ UNCHANGED <<isProcessing, lastAlert, nextUrl, calls>>
    /\ UNCHANGED <<fdVars, hashVars, simVars>>

(***************************************************************************)
(* The counters the component renders, lines 201-202.                      *)
(***************************************************************************)
\* acc + g.images.length - 1
AddGroupWhole(acc, g) == acc + Len(g.images)
AddGroup(acc, g) == acc + Len(g.images) - 1

\* groups.reduce((acc, g) => acc + g.images.length - 1, 0)
RECURSIVE Reduce(_, _)
Reduce(groups, acc) ==
    IF groups = <<>> THEN acc
    ELSE Reduce(Tail(groups), AddGroup(acc, Head(groups)))

uniqueCount == Len(images) - Reduce(duplicateGroups, 0)
duplicateCount == Reduce(duplicateGroups, 0)

Next ==
    \/ \E s \in Selections : HandleFilesNoImages(s)
    \/ \E c \in CallIds, s \in Selections : HandleFilesStart(c, s)
    \/ \E c \in CallIds : FileLoaded(c)
    \/ \E c \in CallIds : LastFileLoaded(c)
    \/ \E c \in CallIds : FileFailed(c)
    \/ \E index \in 1..Len(images) : removeImage(index)
    \/ handleReset

Spec == Init /\ [][Next]_vars

\* every image load fires onload or onerror in the end: an invocation that
\* awaits a file goes on
LoadFires(c) == FileLoaded(c) \/ LastFileLoaded(c) \/ FileFailed(c)

SpecLive == Spec /\ \A c \in CallIds : WF_vars(LoadFires(c))

(***************************************************************************)
(* SpecFD: findDuplicates as a function.  The input is any list of at most *)
(* MaxList image records (distinct object URLs, hashes of the contents),   *)
(* and one step runs the clusterer on it.                                  *)
(***************************************************************************)
Thresholds == {80, Threshold, 93}

\* the record list of a list of contents: record k has object URL k
RecordsOf(cs) ==
    [k \in 1..Len(cs) |->
        ImageWithHash(ImageFile(cs[k]), k, HashTable[cs[k]])]

FdInputs == {RecordsOf(cs) : cs \in SeqsUpTo(Contents, MaxList)}

FdInit ==
    /\ CompInit /\ HashIdle /\ SimIdle
    /\ fdList \in FdInputs
    /\ fdT \in Thresholds
    /\ fdOut = <<>>
    /\ fdOutT = <<>>
    /\ fdPc = "ready"

FdRun ==
    /\ fdPc = "ready"
    /\ fdOut' = findDuplicates(fdList)
    /\ fdOutT' = findDuplicatesAt(fdList, fdT)
    /\ fdPc' = "done"
    /\ UNCHANGED <<fdList, fdT>>
    /\ UNCHANGED <<compVars, hashVars, simVars>>

FdNext == FdRun

SpecFD == FdInit /\ [][FdNext]_vars

(***************************************************************************)
(* SpecHash: the body of img.onload as a function.  The input is an 8 x 8  *)
(* grid of two colours, a run of at most MaxRun foreground samples first;  *)
(* one step computes its hash.                                             *)
(***************************************************************************)
\* alpha values that keep the colour of a sample on the canvas
Alphas == {128, 255}

HashInputs ==
    {TwoColourGrid(fg, bg, 1, n, alpha) :
        fg \in Colours, bg \in Colours, n \in 0..MaxRun, alpha \in Alphas}

HashInit ==
    /\ CompInit /\ FdIdle /\ SimIdle
    /\ hashGrid \in HashInputs
    /\ hashOut = <<>>
    /\ hashPc = "ready"

HashRun ==
    /\ hashPc = "ready"
    /\ hashOut' = HashOfPixels(hashGrid)
    /\ hashPc' = "done"
    /\ UNCHANGED hashGrid
    /\ UNCHANGED <<compVars, fdVars, simVars>>

HashNext == HashRun

SpecHash == HashInit /\ [][HashNext]_vars

(***************************************************************************)
(* SpecSim: calculateSimilarity as a function.  The inputs are two hashes  *)
(* the generator produces: of grids with a white run of 1..MaxRun samples  *)
(* at the start or at the end, on black.                                   *)
(***************************************************************************)
SimInputs ==
    {HashOfPixels(TwoColourGrid(White, Black, 1, n, 255)) : n \in 1..MaxRun}
    \cup {HashOfPixels(TwoColourGrid(White, Black, size * size + 1 - n,
                                     size * size, 255)) : n \in 1..MaxRun}

SimInit ==
    /\ CompInit /\ FdIdle /\ HashIdle
    /\ simA \in SimInputs
    /\ simB \in SimInputs
    /\ simOut = 0
    /\ simBack = 0
    /\ simPc = "ready"

SimRun ==
    /\ simPc = "ready"
    /\ simOut' = calculateSimilarity(simA, simB)
    /\ simBack' = calculateSimilarity(simB, simA)
    /\ simPc' = "done"
    /\ UNCHANGED <<simA, simB>>
    /\ UNCHANGED <<compVars, fdVars, hashVars>>

SimNext == SimRun

SpecSim == SimInit /\ [][SimNext]_vars

(***************************************************************************)
(* Vocabulary of the properties.                                           *)
(***************************************************************************)
\* the records of a group, and the records of all groups
Members(group) == {group.images[m] : m \in 1..Len(group.images)}
Grouped(groups) == UNION {Members(groups[g]) : g \in 1..Len(groups)}

\* the input positions a record holds in a list
PositionsOf(list, rec) == {k \in 1..Len(list) : list[k] = rec}
PositionOf(list, rec) == CHOOSE k \in 1..Len(list) : list[k] = rec

\* the duplicate test of two records at a threshold
Similar(a, b, threshold) ==
    calculateSimilarity(a.hash, b.hash) >= threshold * SimScale

\* position p of the list starts a group of its own (kept or discarded):
\* no earlier seed passes the duplicate test with it
RECURSIVE IsSeed(_, _, _)
IsSeed(list, threshold, p) ==
    \A q \in 1..(p - 1) :
        ~(IsSeed(list, threshold, q) /\ Similar(list[q], list[p], threshold))

\* the groups of a result whose first element is the given record
GroupsLedBy(groups, rec) ==
    {g \in 1..Len(groups) : groups[g].images[1] = rec}

(***************************************************************************)
(* C1..C4, C8..C10: findDuplicates as a function (SpecFD).                 *)
(***************************************************************************)
\* C1: findDuplicates never returns a group with fewer than 2 images.
C1_NoSingletonGroup ==
    fdPc = "done" =>
        \A g \in 1..Len(fdOut) : Len(fdOut[g].images) >= 2

\* a run that discarded a lone seed and kept another group
C1_Witness ==
    /\ fdPc = "done"
    /\ fdOut # <<>>
    /\ \E k \in 1..Len(fdList) : fdList[k] \notin Grouped(fdOut)

\* C2: in every returned group the first element is the member with the
\* smallest input position, and the other members follow in increasing input
\* position.
C2_SeedFirstInInputOrder ==
    fdPc = "done" =>
        \A g \in 1..Len(fdOut) :
            LET ims == fdOut[g].images IN
            /\ \A m \in 1..Len(ims) : Cardinality(PositionsOf(fdList, ims[m])) = 1
            /\ \A a, b \in 1..Len(ims) :
                  a < b => PositionOf(fdList, ims[a]) < PositionOf(fdList, ims[b])

\* a group of three whose members are not neighbours in the input
C2_Witness ==
    /\ fdPc = "done"
    /\ \E g \in 1..Len(fdOut) :
          LET ims == fdOut[g].images IN
          /\ Len(ims) >= 3
          /\ PositionOf(fdList, ims[2]) > PositionOf(fdList, ims[1]) + 1

\* C3: every non-seed member of a returned group passes the duplicate test
\* (similarity >= 90) with the group's first element, and the test against
\* the seed alone decides: a record after the seed that passes it is in the
\* seed's group or was taken by an earlier group.
C3_MembersSimilarToSeed ==
    fdPc = "done" =>
        \A g \in 1..Len(fdOut) :
            LET ims == fdOut[g].images
                seedPos == PositionOf(fdList, ims[1])
            IN
            /\ fdOut[g].hash = ims[1].hash
            /\ \A m \in 2..Len(ims) : Similar(ims[1], ims[m], Threshold)
            /\ \A j \in (seedPos + 1)..Len(fdList) :
                  Similar(ims[1], fdList[j], Threshold) =>
                      \E h \in 1..g : fdList[j] \in Members(fdOut[h])

\* a group with two members that fail the duplicate test with each other
C3_Witness ==
    /\ fdPc = "done"
    /\ \E g \in 1..Len(fdOut) :
          \E a, b \in Members(fdOut[g]) : ~Similar(a, b, Threshold)

\* the two thresholds of a run of SpecFD, in order, with their groupings
FdLow == IF fdT <= Threshold THEN fdT ELSE Threshold
FdHigh == IF fdT <= Threshold THEN Threshold ELSE fdT
FdGroupsLow == IF fdT <= Threshold THEN fdOutT ELSE fdOut
FdGroupsHigh == IF fdT <= Threshold THEN fdOut ELSE fdOutT

\* every group of the second grouping lies within a group of the first, and
\* no record outside the first's groups is in a group of the second
NeverAdds(low, high) ==
    /\ \A h \in 1..Len(high) :
          \E l \in 1..Len(low) : Members(high[h]) \subseteq Members(low[l])
    /\ Grouped(high) \subseteq Grouped(low)

\* the duplicate test at a threshold is transitive over the records of a list
TransitiveAt(list, threshold) ==
    \A a, b, c \in 1..Len(list) :
        (Similar(list[a], list[b], threshold) /\ Similar(list[b], list[c], threshold))
            => Similar(list[a], list[c], threshold)

\* C4 as claimed: raising the threshold never adds members: every group at
\* the higher threshold is contained in a group at the lower one, and no
\* image ungrouped at the lower threshold is grouped at the higher one.
C4_ThresholdMonotone ==
    fdPc = "done" => NeverAdds(FdGroupsLow, FdGroupsHigh)

\* C4 amended: for T1 <= T2 every member of a group produced at T2 passes
\* the duplicate test at T1 with its group's seed, and when the duplicate
\* test at T1 is transitive over the input, every group produced at T2 is
\* contained in a group produced at T1 and no image ungrouped at T1 is
\* grouped at T2.
C4_ThresholdMonotoneAmended ==
    fdPc = "done" =>
        /\ \A h \in 1..Len(FdGroupsHigh) :
              \A m \in Members(FdGroupsHigh[h]) :
                  Similar(FdGroupsHigh[h].images[1], m, FdLow)
        /\ TransitiveAt(fdList, FdLow) => NeverAdds(FdGroupsLow, FdGroupsHigh)

\* a transitive input whose group at 90 shrinks at a higher threshold
C4_Witness ==
    /\ fdPc = "done"
    /\ fdT > Threshold
    /\ TransitiveAt(fdList, FdLow)
    /\ FdGroupsHigh # <<>>
    /\ Grouped(FdGroupsHigh) # Grouped(FdGroupsLow)

\* C8: each input record appears in at most one returned group, and once.
C8_GroupsDisjoint ==
    fdPc = "done" =>
        \A k \in 1..Len(fdList) :
            Cardinality({gm \in (1..Len(fdOut)) \X (1..Len(fdList)) :
                            /\ gm[2] <= Len(fdOut[gm[1]].images)
                            /\ fdOut[gm[1]].images[gm[2]] = fdList[k]}) <= 1

\* two groups, the second seeded before a member of the first
C8_Witness ==
    /\ fdPc = "done"
    /\ Len(fdOut) >= 2
    /\ \E m \in Members(fdOut[1]) :
          PositionOf(fdList, m) > PositionOf(fdList, fdOut[2].images[1])

\* positions i < j < k meet the tie-break's case: i and j are seeds, k
\* passes the duplicate test with both and with no seed before i
TieBreakCase(list, threshold, i, j, k) ==
    /\ i < j /\ j < k
    /\ IsSeed(list, threshold, i)
    /\ IsSeed(list, threshold, j)
    /\ Similar(list[i], list[k], threshold)
    /\ Similar(list[j], list[k], threshold)
    /\ \A q \in 1..(i - 1) :
          IsSeed(list, threshold, q) => ~Similar(list[q], list[k], threshold)

\* C9: a record within threshold of two seeds i < j, and taken by no earlier
\* seed, is placed in i's group and not in j's.
C9_FirstSeedWins ==
    fdPc = "done" =>
        \A i, j, k \in 1..Len(fdList) :
            TieBreakCase(fdList, Threshold, i, j, k) =>
                /\ \E g \in GroupsLedBy(fdOut, fdList[i]) :
                      fdList[k] \in Members(fdOut[g])
                /\ \A g \in GroupsLedBy(fdOut, fdList[j]) :
                      fdList[k] \notin Members(fdOut[g])

\* the tie-break's case, with the second seed keeping a group of its own
C9_Witness ==
    /\ fdPc = "done"
    /\ \E i, j, k \in 1..Len(fdList) :
          /\ TieBreakCase(fdList, Threshold, i, j, k)
          /\ GroupsLedBy(fdOut, fdList[j]) # {}

\* C10: the groups are listed in strictly increasing order of their seed's
\* input position.
C10_GroupsInSeedOrder ==
    fdPc = "done" =>
        \A g, h \in 1..Len(fdOut) :
            g < h => PositionOf(fdList, fdOut[g].images[1])
                        < PositionOf(fdList, fdOut[h].images[1])

\* two groups, the first of which ends after the second does
C10_Witness ==
    /\ fdPc = "done"
    /\ Len(fdOut) >= 2
    /\ LET last1 == fdOut[1].images[Len(fdOut[1].images)]
           last2 == fdOut[2].images[Len(fdOut[2].images)]
       IN  PositionOf(fdList, last2) < PositionOf(fdList, last1)

(***************************************************************************)
(* C5..C7: the component (Spec).                                           *)
(***************************************************************************)
\* invocation c of handleFiles ends in this step
Finishes(c) == calls[c].pc = "await" /\ calls'[c].pc = "idle"

\* invocation c of handleFiles ends in this step because its file fails
FinishesFailing(c) ==
    Finishes(c) /\ ~calls[c].files[calls[c].i].decodes

\* after the step the batch holds a record of every file of c's selection
\* that an Image element loads, and the groups are those of the batch
RestOfSelectionAdded(c) ==
    /\ \A k \in 1..Len(calls[c].files) :
          calls[c].files[k].decodes =>
              \E m \in 1..Len(images') :
                  /\ images'[m].file = calls[c].files[k]
                  /\ images'[m].url = UrlOf(calls[c], k)
    /\ duplicateGroups' = findDuplicates(images')

\* C5: when one file of a selection fails in handleFiles, the other files of
\* the selection are still fingerprinted and added to the batch, and the
\* duplicate groups are computed over the images processed successfully.
C5_FailureIsolated ==
    [][\A c \in CallIds : Finishes(c) => RestOfSelectionAdded(c)]_vars

\* the file names an alert text of the program mentions
NamesIn(text) ==
    CASE text = "Error processing some images" -> {}
      [] text = "Please select image files" -> {}
      [] OTHER -> {}

\* C6: when an image of a batch fails, the report shown to the user names
\* the image that failed, and duplicate groups are still produced for the
\* other images.
C6_FailureNamesImage ==
    [][\A c \in CallIds :
          FinishesFailing(c) =>
              /\ calls[c].files[calls[c].i].name \in NamesIn(lastAlert')
              /\ RestOfSelectionAdded(c)]_vars

\* C7: in every state duplicateGroups is findDuplicates of the current
\* images list.
C7_GroupsAreClusteringOfBatch ==
    duplicateGroups = findDuplicates(images)

\* no file ever failed, the batch lost its second image and still has a group
C7_Witness ==
    /\ lastAlert = ""
    /\ \A c \in CallIds : calls[c].pc = "idle"
    /\ Len(images) = 2
    /\ images[1].url = 1
    /\ images[2].url > 2
    /\ duplicateGroups # <<>>


(***************************************************************************)
(* Claims about calculateSimilarity, under SpecSim.  The model keeps a     *)
(* percentage in units of 1 / SimScale, so 100 * SimScale is 100 percent.  *)
(***************************************************************************)
\* the number of positions at which two hashes of equal length differ,
\* counted position by position from the end
RECURSIVE HammingDistance(_, _)
HammingDistance(a, b) ==
    IF a = <<>> \/ b = <<>> THEN 0
    ELSE HammingDistance(SubSeq(a, 1, Len(a) - 1), SubSeq(b, 1, Len(b) - 1))
         + (IF a[Len(a)] # b[Len(b)] THEN 1 ELSE 0)

\* C11: calculateSimilarity of two equal-length fingerprints returns
\* ((length - d) / length) * 100, d the number of positions at which they
\* differ, and the result lies in [0, 100].
C11_SimilarityFormula ==
    (simPc = "done" /\ Len(simA) = Len(simB)) =>
        /\ simOut * Len(simA)
             = (Len(simA) - HammingDistance(simA, simB)) * 100 * SimScale
        /\ 0 <= simOut
        /\ simOut <= 100 * SimScale

\* two equal-length fingerprints that differ in their last position, among
\* others, have been compared
C11_Witness ==
    /\ simPc = "done"
    /\ Len(simA) = size * size
    /\ Len(simB) = size * size
    /\ simA[Len(simA)] # simB[Len(simB)]
    /\ HammingDistance(simA, simB) > 1
    /\ simOut > 0
    /\ simOut < 100 * SimScale

\* C12: at the threshold 90 two 64-bit fingerprints pass the duplicate test
\* (similarity >= 90) if and only if their Hamming distance is at most 6.
C12_ThresholdIsSixBits ==
    (simPc = "done" /\ Len(simA) = 64 /\ Len(simB) = 64) =>
        (IsDuplicate(simOut, Threshold) <=> HammingDistance(simA, simB) <= 6)

\* fingerprints at distance 7, the first distance that fails the test, have
\* been compared
C12_Witness ==
    /\ simPc = "done"
    /\ HammingDistance(simA, simB) = 7
    /\ ~IsDuplicate(simOut, Threshold)

\* C13: for every fingerprint h the generator produces,
\* calculateSimilarity(h, h) is exactly 100.
C13_SelfSimilarity ==
    (simPc = "done" /\ simA = simB) => simOut = 100 * SimScale

\* a fingerprint with bits of both values has been compared with itself
C13_Witness ==
    /\ simPc = "done"
    /\ simA = simB
    /\ \E k \in 1..Len(simA) : simA[k] = "1"
    /\ \E k \in 1..Len(simA) : simA[k] = "0"

\* C14: for every two fingerprints a and b the generator produces,
\* calculateSimilarity(a, b) = calculateSimilarity(b, a).
C14_Symmetry ==
    simPc = "done" => simOut = simBack

\* two different fingerprints, one with more 1 bits than the other, have
\* been compared in both orders
C14_Witness ==
    /\ simPc = "done"
    /\ simA # simB
    /\ Cardinality({k \in 1..Len(simA) : simA[k] = "1"})
         > Cardinality({k \in 1..Len(simB) : simB[k] = "1"})
    /\ simOut < 100 * SimScale


(***************************************************************************)
(* C15..C17: findDuplicates on batches without pairs, of copies, and with  *)
(* a record apart from all others (SpecFD).                                *)
(***************************************************************************)
\* no two records of the list pass the duplicate test at the threshold
NoPairSimilar(list, threshold) ==
    \A i, j \in 1..Len(list) :
        i # j => ~Similar(list[i], list[j], threshold)

\* the record at position k fails the duplicate test with every other record
Isolated(list, threshold, k) ==
    \A j \in 1..Len(list) : j # k => ~Similar(list[k], list[j], threshold)

\* C15: findDuplicates returns an empty list whenever the input has fewer
\* than 2 records and whenever no pair of records has similarity >= threshold.
C15_EmptyWithoutPair ==
    fdPc = "done" =>
        /\ (Len(fdList) < 2 \/ NoPairSimilar(fdList, Threshold))
              => fdOut = <<>>
        /\ (Len(fdList) < 2 \/ NoPairSimilar(fdList, fdT))
              => fdOutT = <<>>

\* three or more records, no two of them similar, have been clustered
C15_Witness ==
    /\ fdPc = "done"
    /\ Len(fdList) >= 3
    /\ NoPairSimilar(fdList, Threshold)
    /\ fdOut = <<>>

\* C16: when all N >= 2 records have identical fingerprints, findDuplicates
\* returns exactly one group, it contains all N records, and its seed is the
\* record at input position 0.
C16_CopiesFormOneGroup ==
    (/\ fdPc = "done"
     /\ Len(fdList) >= 2
     /\ \A k \in 1..Len(fdList) : fdList[k].hash = fdList[1].hash) =>
        /\ Len(fdOut) = 1
        /\ Len(fdOut[1].images) = Len(fdList)
        /\ Members(fdOut[1]) = {fdList[k] : k \in 1..Len(fdList)}
        /\ fdOut[1].images[1] = fdList[1]

\* three or more records with one fingerprint have been clustered
C16_Witness ==
    /\ fdPc = "done"
    /\ Len(fdList) >= 3
    /\ \A k \in 1..Len(fdList) : fdList[k].hash = fdList[1].hash
    /\ Len(fdOut) = 1

\* C17: a record whose similarity to every other record is below the
\* threshold appears in no returned group, and the remaining records are
\* grouped exactly as they would be without it.
C17_IsolatedRecordStaysUnique ==
    fdPc = "done" =>
        \A k \in 1..Len(fdList) :
            /\ Isolated(fdList, Threshold, k) =>
                  /\ fdList[k] \notin Grouped(fdOut)
                  /\ fdOut = findDuplicates(SpliceOut(fdList, k))
            /\ Isolated(fdList, fdT, k) =>
                  /\ fdList[k] \notin Grouped(fdOutT)
                  /\ fdOutT = findDuplicatesAt(SpliceOut(fdList, k), fdT)

\* two similar records and a third far from both: one group of the two, the
\* third in none
C17_Witness ==
    /\ fdPc = "done"
    /\ Len(fdList) = 3
    /\ Isolated(fdList, Threshold, 3)
    /\ Len(fdOut) = 1
    /\ Members(fdOut[1]) = {fdList[1], fdList[2]}
    /\ fdList[1].hash # fdList[2].hash


(***************************************************************************)
(* C18, C19: the hash of a grid of samples (SpecHash).                     *)
(***************************************************************************)
\* C18: every fingerprint generateImageHash produces has exactly 64 bits, so
\* every image of the batch carries a fingerprint of length 64 and all
\* comparisons are between fingerprints of equal length.
C18_HashHas64Bits ==
    /\ hashPc = "done" =>
          /\ Len(hashOut) = 64
          /\ \A k \in 1..Len(hashOut) : hashOut[k] \in {"0", "1"}
    /\ \A f \in Files : f.decodes => Len(generateImageHash(f)) = 64

\* a grid of two grays has been hashed, to bits of both values
C18_Witness ==
    /\ hashPc = "done"
    /\ \E k \in 1..Len(hashOut) : hashOut[k] = "1"
    /\ \E k \in 1..Len(hashOut) : hashOut[k] = "0"
    /\ Len(hashOut) = size * size

\* 0.299 * R + 0.587 * G + 0.114 * B of a sample, in thousandths
Luminance(p) == p.r * 299 + p.g * 587 + p.b * 114

\* the sum of the luminances of a grid's samples, in thousandths
TotalLuminance(grid) == SumSeq([k \in 1..Len(grid) |-> Luminance(grid[k])])

\* the same samples with another alpha
WithAlpha(grid, alpha) ==
    [k \in 1..Len(grid) |-> [grid[k] EXCEPT !.a = alpha]]

\* C19: for every 8 x 8 grid of samples, bit k of the fingerprint is 1
\* exactly when the luminance 0.299 R + 0.587 G + 0.114 B of sample k is at
\* least the arithmetic mean luminance of the 64 samples, and 0 otherwise;
\* alpha does not affect the result.
C19_BitIsLuminanceAtLeastMean ==
    hashPc = "done" =>
        /\ Len(hashOut) = Len(hashGrid)
        /\ \A k \in 1..Len(hashGrid) :
              hashOut[k] =
                  (IF Luminance(hashGrid[k]) * Len(hashGrid)
                         >= TotalLuminance(hashGrid)
                   THEN "1" ELSE "0")
        /\ \A alpha \in Alphas :
              HashOfPixels(WithAlpha(hashGrid, alpha)) = hashOut

(***************************************************************************)
(* C20: the hash of a record of the batch (Spec).                          *)
(***************************************************************************)
\* C20: the fingerprint of an image of the batch is computed once, when the
\* image is added, and never changes afterwards: adding other images,
\* removing other images and re-clustering leave the hash of every image
\* that remains in the batch unchanged.
C20_HashComputedOnce ==
    [][/\ \A i \in 1..Len(images) : \A j \in 1..Len(images') :
             images'[j].url = images[i].url
                 => images'[j].hash = images[i].hash
       /\ \A j \in 1..Len(images') :
             images'[j].hash = generateImageHash(images'[j].file)
       /\ \A g \in 1..Len(duplicateGroups') :
             \A rec \in Members(duplicateGroups'[g]) :
                 \E j \in 1..Len(images') : images'[j] = rec]_vars

\* the batch holds its first image and, right after it, one added later with
\* another hash: an image between them was removed
C20_Witness ==
    /\ lastAlert = ""
    /\ \A c \in CallIds : calls[c].pc = "idle"
    /\ Len(images) = 2
    /\ images[1].url = 1
    /\ images[2].url = 3
    /\ images[1].hash # images[2].hash


(***************************************************************************)
(* C21..C22, C25..C26, C28..C30: the component with invocations of         *)
(* handleFiles that overlap each other, removeImage and handleReset (Spec).*)
(***************************************************************************)
\* no invocation of handleFiles is in flight
Quiescent == \A c \in CallIds : calls[c].pc = "idle"

\* the object URLs the records of a list hold
UrlsOf(list) == {list[k].url : k \in 1..Len(list)}

\* the object URLs that were created and not revoked
LiveUrls == {u \in DOMAIN objectUrls : objectUrls[u] = "live"}

\* the step revokes exactly the URLs of the set
RevokesExactly(us) ==
    \A u \in DOMAIN objectUrls :
        objectUrls'[u] = (IF u \in us THEN "revoked" ELSE objectUrls[u])

\* the step is a removeImage or a handleReset
RemovesOne ==
    calls' = calls /\ \E index \in 1..Len(images) : images' = SpliceOut(images, index)
Clears == calls' = calls /\ images # <<>> /\ images' = <<>>

\* C21: after any sequence of add (also adds that fail part-way), remove and
\* reset operations, every object URL created for an image record is held by
\* an image of the batch or has been revoked; removal revokes exactly the
\* removed image's URL and reset revokes all of them.
C21_NoUrlLeak ==
    [][/\ Quiescent' => (LiveUrls' \subseteq UrlsOf(images'))
       /\ RemovesOne =>
             \E index \in 1..Len(images) :
                 /\ images' = SpliceOut(images, index)
                 /\ RevokesExactly({images[index].url})
       /\ (Clears /\ ~RemovesOne) => RevokesExactly(UrlsOf(images))]_vars


\* the step is one of invocation c of handleFiles, after its first await
StepOf(c) == calls[c].pc = "await" /\ calls'[c] # calls[c]

\* the step is the one in which invocation c replaces the batch and runs
\* the clusterer
ClusterStep(c) == StepOf(c) /\ images' # images

\* the step leaves the batch a list whose last records are those of all the
\* files of c's selection, in selection order, each with its fingerprint
SelectionFingerprinted(c) ==
    LET n == Len(calls[c].files)
        m == Len(images') - n
    IN  /\ m >= 0
        /\ \A k \in 1..n :
              /\ images'[m + k].file = calls[c].files[k]
              /\ images'[m + k].url = UrlOf(calls[c], k)
              /\ images'[m + k].hash = generateImageHash(calls[c].files[k])

\* C22: within handleFiles the clusterer is invoked only after the
\* fingerprint of every file of the selection has been computed, and every
\* record passed to findDuplicates already has its fingerprint.
C22_ClusterAfterAllFingerprints ==
    [][\A c \in CallIds :
          /\ (StepOf(c) /\ ~ClusterStep(c)) =>
                duplicateGroups' = duplicateGroups
          /\ ClusterStep(c) =>
                /\ calls[c].i = Len(calls[c].files)
                /\ Len(calls[c].newImages) = Len(calls[c].files) - 1
                /\ SelectionFingerprinted(c)
                /\ \A k \in 1..Len(images') : Len(images'[k].hash) = size * size
                /\ duplicateGroups' = findDuplicates(images')]_vars

\* a selection of two files has been fingerprinted and clustered into a group
C22_Witness ==
    /\ Quiescent
    /\ lastAlert = ""
    /\ UrlsOf(images) = {1, 2}
    /\ Len(images) = 2
    /\ Len(duplicateGroups) = 1
    /\ progress = 100


(***************************************************************************)
(* C23, C24, C27: the groups of findDuplicates from within and from        *)
(* without (SpecFD).                                                       *)
(***************************************************************************)
\* every two members of every group pass the duplicate test at the threshold
AllPairsSimilar(groups, threshold) ==
    \A g \in 1..Len(groups) :
        \A a, b \in Members(groups[g]) : Similar(a, b, threshold)

\* C23 as claimed: within every returned group all pairwise similarities
\* between members, not only seed to member, are at or above the threshold.
C23_AllPairsAtThreshold ==
    fdPc = "done" =>
        /\ AllPairsSimilar(fdOut, Threshold)
        /\ AllPairsSimilar(fdOutT, fdT)

\* every member of every group passes the duplicate test with the group's
\* seed, and every two members are within twice the distance the threshold
\* allows: their similarity is at least 2 * threshold - 100
SeedLinked(groups, threshold) ==
    \A g \in 1..Len(groups) :
        /\ \A a \in Members(groups[g]) :
              Similar(groups[g].images[1], a, threshold)
        /\ \A a, b \in Members(groups[g]) :
              calculateSimilarity(a.hash, b.hash)
                  >= (2 * threshold - 100) * SimScale

\* C23, amended: within every returned group every member's similarity to
\* the seed is at or above the threshold; two members other than the seed can
\* be below the threshold with each other, but never below
\* 2 * threshold - 100.
C23_PairsWithinTwiceTheDistance ==
    fdPc = "done" =>
        /\ SeedLinked(fdOut, Threshold)
        /\ SeedLinked(fdOutT, fdT)

\* a group of three whose two later members each pass the test with the seed
\* and fail it with each other
C23_Witness ==
    /\ fdPc = "done"
    /\ \E g \in 1..Len(fdOut) :
          /\ Len(fdOut[g].images) = 3
          /\ Similar(fdOut[g].images[1], fdOut[g].images[2], Threshold)
          /\ Similar(fdOut[g].images[1], fdOut[g].images[3], Threshold)
          /\ ~Similar(fdOut[g].images[2], fdOut[g].images[3], Threshold)

\* the seeds of the groups, and the records in no group
SeedsOf(groups) == {groups[g].images[1] : g \in 1..Len(groups)}
Ungrouped(list, groups) ==
    {list[k] : k \in 1..Len(list)} \ Grouped(groups)

\* no two different records among the seeds of the groups and the records in
\* no group pass the duplicate test
Maximal(list, groups, threshold) ==
    \A a, b \in SeedsOf(groups) \cup Ungrouped(list, groups) :
        a # b => ~Similar(a, b, threshold)

\* C24: in the result of findDuplicates any two distinct group seeds have
\* similarity below the threshold, and any two records that are in no group
\* have similarity below the threshold: no two unique images are duplicates
\* of each other.
C24_GreedyGroupingIsMaximal ==
    fdPc = "done" =>
        /\ Maximal(fdList, fdOut, Threshold)
        /\ Maximal(fdList, fdOutT, fdT)

\* a group and two records in no group have been returned
C24_Witness ==
    /\ fdPc = "done"
    /\ Len(fdOut) = 1
    /\ Cardinality(Ungrouped(fdList, fdOut)) = 2


\* C25: when a second handleFiles invocation, a removeImage or a reset
\* happens while a handleFiles invocation awaits fingerprints, then after
\* both complete the batch reflects both operations: the invocation adds its
\* images to the batch as the other operation left it, so that every image
\* the other invocation added is present and no removed or cleared image
\* comes back.
C25_NoLostUpdate ==
    [][\A c \in CallIds :
          ClusterStep(c) =>
              /\ UrlsOf(images) \subseteq UrlsOf(images')
              /\ UrlsOf(images') \subseteq
                    UrlsOf(images)
                        \cup {UrlOf(calls[c], k) : k \in 1..Len(calls[c].files)}
              /\ SelectionFingerprinted(c)]_vars

\* the object URLs invocation c creates for the files of its selection
BlockOf(c) == {UrlOf(calls[c], k) : k \in 1..Len(calls[c].files)}

\* a file of invocation c's selection fails to load
HasFailingFile(c) ==
    \E k \in 1..Len(calls[c].files) : ~calls[c].files[k].decodes

\* C26: if getImageInfo or generateImageHash rejects for any file of a
\* selection, handleFiles leaves images and duplicateGroups exactly as they
\* were: no step of the invocation changes them, and no image of that
\* selection is added.
C26_UnchangedOnError ==
    [][\A c \in CallIds :
          (StepOf(c) /\ HasFailingFile(c)) =>
              /\ images' = images
              /\ duplicateGroups' = duplicateGroups
              /\ UrlsOf(images') \cap BlockOf(c) = {}]_vars

\* an invocation on a batch of one image fingerprinted its first file and
\* failed on its second: the batch is the one image
C26_Witness ==
    /\ Quiescent
    /\ lastAlert = "Error processing some images"
    /\ UrlsOf(images) = {1}
    /\ LiveUrls = {1, 2, 3}
    /\ nextUrl = 4


(***************************************************************************)
(* C27: removing a record that leads no group (SpecFD).                    *)
(***************************************************************************)
\* a sequence without the elements equal to rec
RECURSIVE Without(_, _)
Without(seq, rec) ==
    IF seq = <<>> THEN <<>>
    ELSE IF Head(seq) = rec THEN Without(Tail(seq), rec)
    ELSE <<Head(seq)>> \o Without(Tail(seq), rec)

\* the groups with rec taken out of its group, a group left with one image
\* dropped, everything else as it was
RECURSIVE GroupsWithout(_, _)
GroupsWithout(groups, rec) ==
    IF groups = <<>> THEN <<>>
    ELSE LET rest == Without(Head(groups).images, rec) IN
         (IF Len(rest) > 1
          THEN <<[hash |-> Head(groups).hash, images |-> rest]>>
          ELSE <<>>)
         \o GroupsWithout(Tail(groups), rec)

\* C27: removing an image that is not a group seed changes at most its own
\* group: that group loses the image (and disappears if it drops to one
\* member), while every other group keeps the same seed and the same members
\* in the same order.
C27_RemovingNonSeedIsLocal ==
    fdPc = "done" =>
        \A k \in 1..Len(fdList) :
            /\ fdList[k] \notin SeedsOf(fdOut) =>
                  GroupsOnRemove(SpliceOut(fdList, k))
                      = GroupsWithout(fdOut, fdList[k])
            /\ fdList[k] \notin SeedsOf(fdOutT) =>
                  findDuplicatesAt(SpliceOut(fdList, k), fdT)
                      = GroupsWithout(fdOutT, fdList[k])

\* two groups of two: taking the second member out of the first dissolves it
\* and leaves the other
C27_Witness ==
    /\ fdPc = "done"
    /\ Len(fdOut) = 2
    /\ \E k \in 1..Len(fdList) :
          /\ fdList[k] = fdOut[1].images[2]
          /\ Len(GroupsOnRemove(SpliceOut(fdList, k))) = 1


(***************************************************************************)
(* C28..C30: appending, the counters and isProcessing (Spec).              *)
(***************************************************************************)
\* group old is still there in the groups: same seed, and its members a
\* prefix of the new members
Survives(old, groups) ==
    \E g \in 1..Len(groups) :
        /\ groups[g].images[1] = old.images[1]
        /\ groups[g].hash = old.hash
        /\ Len(groups[g].images) >= Len(old.images)
        /\ SubSeq(groups[g].images, 1, Len(old.images)) = old.images

\* C28: after a successful handleFiles the new images are appended after the
\* existing ones (the batch handleFiles was called on) in selection order,
\* every group that existed before still exists with the same seed and its
\* previous members as a prefix, and no previously grouped image leaves its
\* group.
C28_AppendKeepsGroups ==
    [][\A c \in CallIds :
          ClusterStep(c) =>
              LET before == calls[c].captured
                  groupsBefore == findDuplicates(before)
              IN  /\ Len(images') = Len(before) + Len(calls[c].files)
                  /\ SubSeq(images', 1, Len(before)) = before
                  /\ SelectionFingerprinted(c)
                  /\ \A g \in 1..Len(groupsBefore) :
                        Survives(groupsBefore[g], duplicateGroups')
                  /\ Grouped(groupsBefore) \subseteq Grouped(duplicateGroups')]_vars

\* a group of two images that a later selection's image joined as its third
C28_Witness ==
    /\ Quiescent
    /\ lastAlert = ""
    /\ Len(images) = 3
    /\ Len(duplicateGroups) = 1
    /\ Len(duplicateGroups[1].images) = 3
    /\ duplicateGroups[1].images[3].url = 3
    /\ LiveUrls = {1, 2, 3}


\* the members of the groups after their seeds, as (group, place) pairs
NonSeedMembers ==
    {gm \in (1..Len(duplicateGroups)) \X (1..(Len(images) + 1)) :
        gm[2] >= 2 /\ gm[2] <= Len(duplicateGroups[gm[1]].images)}

\* the positions of the batch whose image is in no group
UngroupedPositions ==
    {k \in 1..Len(images) : images[k] \notin Grouped(duplicateGroups)}

\* C29: in every reachable state uniqueCount + duplicateCount =
\* images.length, duplicateCount is the number of non-seed members over all
\* groups, and uniqueCount is the number of groups plus the number of images
\* in no group (hence uniqueCount >= 1 whenever the batch is non-empty).
C29_CountersAddUp ==
    /\ uniqueCount + duplicateCount = Len(images)
    /\ duplicateCount = Cardinality(NonSeedMembers)
    /\ uniqueCount = Len(duplicateGroups) + Cardinality(UngroupedPositions)
    /\ images # <<>> => uniqueCount >= 1

\* a batch of three: a group of two and an image in no group
C29_Witness ==
    /\ Len(images) = 3
    /\ Len(duplicateGroups) = 1
    /\ Cardinality(UngroupedPositions) = 1
    /\ uniqueCount = 2
    /\ duplicateCount = 1


\* an invocation of handleFiles is in flight
InFlight == \E c \in CallIds : calls[c].pc = "await"

\* every invocation in flight ends, and the step that ends it leaves
\* isProcessing false
EveryInvocationEnds ==
    /\ \A c \in CallIds : (calls[c].pc = "await") ~> (calls[c].pc = "idle")
    /\ [][\A c \in CallIds : Finishes(c) => ~isProcessing']_vars

\* C30: every handleFiles invocation that sets isProcessing to true
\* eventually sets it back to false, whether fingerprinting succeeds or
\* fails, provided each image load eventually fires onload or onerror; and
\* isProcessing is true at every moment a handleFiles invocation is still
\* in flight.
C30_ProcessingWhileInFlight ==
    /\ EveryInvocationEnds
    /\ [](InFlight => isProcessing)

====
